---- MODULE Spec2Model ----
(***************************************************************************)
(* Model of golang-lvs: the Service record, its validation, its text form  *)
(* (String / parseService) and the AddServer / EditServer / RemoveServer   *)
(* bookkeeping around the external "ipvsadm" backend.                      *)
(*                                                                         *)
(* A Go string is modelled as a sequence of one-character strings, so that *)
(* formatting, splitting and parsing are computed character by character.  *)
(***************************************************************************)
EXTENDS Integers, Sequences, FiniteSets, TLC

VARIABLES svc, call, text, parsed

vars == <<svc, call, text, parsed>>

----------------------------------------------------------------------------
(* String literals of the source, as character sequences.                  *)

E == <<>>
SP == <<" ">>
NL == <<"\n">>
s_tcp == <<"t", "c", "p">>
s_udp == <<"u", "d", "p">>
s_fwmark == <<"f", "w", "m", "a", "r", "k">>
s_rr == <<"r", "r">>
s_wrr == <<"w", "r", "r">>
s_lc == <<"l", "c">>
s_wlc == <<"w", "l", "c">>
s_lblc == <<"l", "b", "l", "c">>
s_lblcr == <<"l", "b", "l", "c", "r">>
s_dh == <<"d", "h">>
s_sh == <<"s", "h">>
s_sed == <<"s", "e", "d">>
s_nq == <<"n", "q">>
f_t == <<"-", "t">>
f_u == <<"-", "u">>
f_f == <<"-", "f">>
f_s == <<"-", "s">>
f_p == <<"-", "p">>
f_M == <<"-", "M">>
f_A == <<"-", "A">>
f_a == <<"-", "a">>
f_e == <<"-", "e">>
f_d == <<"-", "d">>
f_r == <<"-", "r">>
f_w == <<"-", "w">>
f_g == <<"-", "g">>
f_i == <<"-", "i">>
f_m == <<"-", "m">>
l_tcp == <<"-", "-", "t", "c", "p", "-", "s", "e", "r", "v", "i", "c", "e">>
l_udp == <<"-", "-", "u", "d", "p", "-", "s", "e", "r", "v", "i", "c", "e">>
l_fwmark == <<"-", "-", "f", "w", "m", "a", "r", "k", "-", "s", "e", "r", "v", "i", "c", "e">>
l_scheduler == <<"-", "-", "s", "c", "h", "e", "d", "u", "l", "e", "r">>
l_persistent == <<"-", "-", "p", "e", "r", "s", "i", "s", "t", "e", "n", "t">>
l_netmask == <<"-", "-", "n", "e", "t", "m", "a", "s", "k">>
s_g == <<"g">>
s_i == <<"i">>
s_m == <<"m">>

----------------------------------------------------------------------------
(* Library functions the source calls, computed as the library computes    *)
(* them.                                                                   *)

Digits == <<"0", "1", "2", "3", "4", "5", "6", "7", "8", "9">>

IsDigit(c) == \E d \in 1..10 : Digits[d] = c

DigitVal(c) == (CHOOSE d \in 1..10 : Digits[d] = c) - 1

RECURSIVE UItoa(_)
\* decimal digits of a natural number
UItoa(n) == IF n < 10 THEN <<Digits[n + 1]>>
            ELSE UItoa(n \div 10) \o <<Digits[(n % 10) + 1]>>

\* fmt.Sprintf("%d", n)
Itoa(n) == IF n < 0 THEN <<"-">> \o UItoa(-n) ELSE UItoa(n)

RECURSIVE UAtoi(_, _)
\* value of a non-empty digit string, accumulated left to right
UAtoi(s, acc) == IF s = <<>> THEN acc
                 ELSE UAtoi(Tail(s), acc * 10 + DigitVal(Head(s)))

\* strconv.Atoi: an optional sign followed by at least one decimal digit
Atoi(s) ==
  LET body == IF s # <<>> /\ Head(s) \in {"-", "+"} THEN Tail(s) ELSE s
  IN IF body = <<>> \/ \E k \in 1..Len(body) : ~IsDigit(body[k])
     THEN [ok |-> FALSE, val |-> 0]
     ELSE [ok |-> TRUE,
           val |-> IF Head(s) = "-" THEN -UAtoi(body, 0) ELSE UAtoi(body, 0)]

RECURSIVE Split(_, _)
\* strings.Split(s, sep) for a one-character separator
Split(s, sep) ==
  IF \A k \in 1..Len(s) : s[k] # sep THEN <<s>>
  ELSE LET k == CHOOSE j \in 1..Len(s) :
                   s[j] = sep /\ \A h \in 1..(j - 1) : s[h] # sep
       IN <<SubSeq(s, 1, k - 1)>> \o Split(SubSeq(s, k + 1, Len(s)), sep)

RECURSIVE Join(_, _)
\* strings.Join(a, sep)
Join(a, sep) == IF a = <<>> THEN <<>>
                ELSE IF Len(a) = 1 THEN a[1]
                ELSE a[1] \o sep \o Join(Tail(a), sep)

RECURSIVE Flatten(_)
\* strings.Join(a, "")
Flatten(a) == IF a = <<>> THEN <<>> ELSE Head(a) \o Flatten(Tail(a))

\* net.SplitHostPort for addresses without square brackets: the port is
\* what follows the last colon, and the host must not hold another colon
SplitHostPort(hp) ==
  IF \A k \in 1..Len(hp) : hp[k] # ":"
  THEN [ok |-> FALSE, host |-> <<>>, port |-> <<>>]
  ELSE LET i == CHOOSE j \in 1..Len(hp) :
                   hp[j] = ":" /\ \A h \in (j + 1)..Len(hp) : hp[h] # ":"
           host == SubSeq(hp, 1, i - 1)
       IN IF \E k \in 1..Len(host) : host[k] = ":"
          THEN [ok |-> FALSE, host |-> <<>>, port |-> <<>>]
          ELSE [ok |-> TRUE, host |-> host, port |-> SubSeq(hp, i + 1, Len(hp))]

\* parseHostPort: the whole text and port 0 when it is not host:integer
parseHostPort(hostPort) ==
  LET hp == SplitHostPort(hostPort)
      p == Atoi(hp.port)
  IN IF ~hp.ok THEN [host |-> hostPort, port |-> 0]
     ELSE IF ~p.ok THEN [host |-> hostPort, port |-> 0]
     ELSE [host |-> hp.host, port |-> p.val]

----------------------------------------------------------------------------
(* service.go: the flag tables, the errors, and the pure methods.          *)

ServiceTypeFlag ==
  (s_tcp :> f_t) @@ (s_udp :> f_u) @@ (s_fwmark :> f_f) @@ (E :> f_t)

ServiceSchedulerFlag ==
  (s_rr :> s_rr) @@ (s_wrr :> s_wrr) @@ (s_lc :> s_lc) @@ (s_wlc :> s_wlc)
  @@ (s_lblc :> s_lblc) @@ (s_lblcr :> s_lblcr) @@ (s_dh :> s_dh)
  @@ (s_sh :> s_sh) @@ (s_sed :> s_sed) @@ (s_nq :> s_nq) @@ (E :> s_wlc)

\* The Server type (Host, Port, Forwarder, Weight), its forwarder table,
\* Validate and String are defined outside service.go; they are modelled
\* here from their use in service.go: the forwarder "m" is masquerading,
\* and a server with an unknown forwarder fails its validation.
ServerForwarderFlag ==
  (s_g :> f_g) @@ (s_i :> f_i) @@ (s_m :> f_m) @@ (E :> f_g)

\* a Go map read: the zero value "" for a missing key
MapGet(m, k) == IF k \in DOMAIN m THEN m[k] ELSE E

Nil == "nil"
InvalidServiceType == "Invalid Service Type"
InvalidServiceScheduler == "Invalid Service Scheduler"
InvalidServerPort == "Invalid Server Port"
InvalidServerForwarder == "Invalid Server Forwarder"

\* Server.Validate: the forwarder must be a key of the forwarder table
ServerValidate(server) ==
  IF server.Forwarder \notin DOMAIN ServerForwarderFlag
  THEN InvalidServerForwarder
  ELSE Nil

\* Server.String: "host:port <forwarder flag> -w <weight>"
ServerString(server) ==
  server.Host \o <<":">> \o Itoa(server.Port) \o SP
  \o MapGet(ServerForwarderFlag, server.Forwarder) \o SP
  \o f_w \o SP \o Itoa(server.Weight)

\* the two checks made on one server, in the order the code makes them
CheckServer(s, server) ==
  IF ServerValidate(server) # Nil THEN ServerValidate(server)
  ELSE IF server.Forwarder # s_m /\ s.Port # server.Port THEN InvalidServerPort
  ELSE Nil

RECURSIVE ValidateServers(_, _)
\* the loop of Service.Validate from index i on: the first error, or nil
ValidateServers(s, i) ==
  IF i > Len(s.Servers) THEN Nil
  ELSE IF CheckServer(s, s.Servers[i]) # Nil THEN CheckServer(s, s.Servers[i])
  ELSE ValidateServers(s, i + 1)

\* a faulty Validate: the scheduler is checked before the type
ValidateSchedulerFirst(s) ==
  IF s.Scheduler \notin DOMAIN ServiceSchedulerFlag THEN InvalidServiceScheduler
  ELSE IF s.Type \notin DOMAIN ServiceTypeFlag THEN InvalidServiceType
  ELSE ValidateServers(s, 1)

\* Service.Validate
Validate(s) ==
  IF s.Type \notin DOMAIN ServiceTypeFlag THEN InvalidServiceType
  ELSE IF s.Scheduler \notin DOMAIN ServiceSchedulerFlag THEN InvalidServiceScheduler
  ELSE ValidateServers(s, 1)

\* Service.FindServer: the index of the first entry with that host and
\* port, 0 for the nil pointer
FindServer(servers, host, port) ==
  IF \E i \in 1..Len(servers) : servers[i].Host = host /\ servers[i].Port = port
  THEN CHOOSE i \in 1..Len(servers) :
         /\ servers[i].Host = host /\ servers[i].Port = port
         /\ \A j \in 1..(i - 1) : ~(servers[j].Host = host /\ servers[j].Port = port)
  ELSE 0

\* Service.getNetmask
getNetmask(s) == IF s.Netmask # E THEN <<f_M, s.Netmask>> ELSE <<>>

\* Service.getPersistence
getPersistence(s) ==
  IF s.Persistence # 0 THEN <<f_p, Itoa(s.Persistence)>> ELSE <<>>

\* Service.getHostPort
getHostPort(s) ==
  IF s.Port = 0 THEN s.Host ELSE s.Host \o <<":">> \o Itoa(s.Port)

\* the "-A" line of Service.String
ServiceLine(s) ==
  f_A \o SP \o MapGet(ServiceTypeFlag, s.Type) \o SP \o getHostPort(s) \o SP
  \o f_s \o SP \o MapGet(ServiceSchedulerFlag, s.Scheduler) \o SP
  \o Join(getPersistence(s), SP) \o SP \o Join(getNetmask(s), SP) \o NL

\* the "-a" line of Service.String for one server
ServerLine(s, server) ==
  f_a \o SP \o MapGet(ServiceTypeFlag, s.Type) \o SP
  \o s.Host \o <<":">> \o Itoa(s.Port) \o SP
  \o f_r \o SP \o ServerString(server) \o NL

\* Service.String
String(s) ==
  Flatten(<<ServiceLine(s)>>
          \o [i \in 1..Len(s.Servers) |-> ServerLine(s, s.Servers[i])])

\* the arguments Service.Add hands to the backend
AddArgs(s) ==
  <<f_A, MapGet(ServiceTypeFlag, s.Type), getHostPort(s), f_s,
    MapGet(ServiceSchedulerFlag, s.Scheduler)>>
  \o getPersistence(s) \o getNetmask(s)

\* the arguments AddServer ("-a") and EditServer ("-e") hand to the backend
ServerArgs(flag, s, server) ==
  <<flag, MapGet(ServiceTypeFlag, s.Type), getHostPort(s), f_r>>
  \o Split(ServerString(server), " ")

\* the arguments RemoveServer hands to the backend
RemoveArgs(s, host, port) ==
  <<f_d, MapGet(ServiceTypeFlag, s.Type), getHostPort(s), f_r,
    host \o <<":">> \o Itoa(port)>>

\* the Service literal parseService starts from
DefaultService ==
  [Host |-> E, Port |-> 0, Type |-> s_tcp, Scheduler |-> s_wlc,
   Persistence |-> 300, Netmask |-> E, Servers |-> <<>>]

\* one iteration of the loop of parseService on token i; reading
\* exploded[i+1] past the end of the slice is a run-time panic
ParseToken(exploded, i, service) ==
  LET tok == exploded[i]
      last == i + 1 > Len(exploded)
      nxt == exploded[i + 1]
      ty == IF tok \in {f_t, l_tcp} THEN s_tcp
            ELSE IF tok \in {f_u, l_udp} THEN s_udp ELSE s_fwmark
  IN IF tok \in {f_t, l_tcp, f_u, l_udp, f_f, l_fwmark}
     THEN IF last THEN [panic |-> TRUE, service |-> [service EXCEPT !.Type = ty]]
          ELSE [panic |-> FALSE,
                service |-> [service EXCEPT !.Type = ty,
                                            !.Host = parseHostPort(nxt).host,
                                            !.Port = parseHostPort(nxt).port]]
     ELSE IF tok \in {f_s, l_scheduler}
     THEN IF last THEN [panic |-> TRUE, service |-> service]
          ELSE [panic |-> FALSE, service |-> [service EXCEPT !.Scheduler = nxt]]
     ELSE IF tok \in {f_p, l_persistent}
     THEN IF last THEN [panic |-> TRUE, service |-> service]
          ELSE [panic |-> FALSE,
                service |-> [service EXCEPT !.Persistence =
                               IF Atoi(nxt).ok THEN Atoi(nxt).val ELSE 300]]
     ELSE IF tok \in {f_M, l_netmask}
     THEN IF last THEN [panic |-> TRUE, service |-> service]
          ELSE [panic |-> FALSE, service |-> [service EXCEPT !.Netmask = nxt]]
     ELSE [panic |-> FALSE, service |-> service]

RECURSIVE ParseLoop(_, _, _)
\* the loop of parseService from token i on
ParseLoop(exploded, i, service) ==
  IF i > Len(exploded) THEN [panic |-> FALSE, service |-> service]
  ELSE LET r == ParseToken(exploded, i, service)
       IN IF r.panic THEN r ELSE ParseLoop(exploded, i + 1, r.service)

\* parseService
parseService(serviceString) ==
  ParseLoop(Split(serviceString, " "), 1, DefaultService)

----------------------------------------------------------------------------
(* The methods that change Servers.  Each is computed as a function of the *)
(* service, the arguments and the error the backend returns when invoked:  *)
(* the service afterwards, whether the backend was invoked and with which  *)
(* arguments, and the returned error.                                      *)

NoBackend(s, ret) ==
  [svc |-> s, invoked |-> FALSE, args |-> <<>>, berr |-> Nil, ret |-> ret]

Backend(s, args, out, servers) ==
  [svc |-> IF out # Nil THEN s ELSE [s EXCEPT !.Servers = servers],
   invoked |-> TRUE, args |-> args, berr |-> out, ret |-> out]

\* a faulty AddServer: a listed entry is overwritten by the given server
AddServerUpsert(s, server, out) ==
  LET i == FindServer(s.Servers, server.Host, server.Port)
  IN IF ServerValidate(server) # Nil THEN NoBackend(s, ServerValidate(server))
     ELSE IF server.Forwarder # s_m /\ s.Port # server.Port
     THEN NoBackend(s, InvalidServerPort)
     ELSE IF i # 0
     THEN NoBackend([s EXCEPT !.Servers[i] = server], Nil)
     ELSE Backend(s, ServerArgs(f_a, s, server), out, Append(s.Servers, server))

\* a faulty AddServer: the FindServer test is missing
AddServerNoFind(s, server, out) ==
  IF ServerValidate(server) # Nil THEN NoBackend(s, ServerValidate(server))
  ELSE IF server.Forwarder # s_m /\ s.Port # server.Port
  THEN NoBackend(s, InvalidServerPort)
  ELSE Backend(s, ServerArgs(f_a, s, server), out, Append(s.Servers, server))

\* Service.AddServer
AddServerResult(s, server, out) ==
  IF ServerValidate(server) # Nil THEN NoBackend(s, ServerValidate(server))
  ELSE IF server.Forwarder # s_m /\ s.Port # server.Port
  THEN NoBackend(s, InvalidServerPort)
  ELSE IF FindServer(s.Servers, server.Host, server.Port) # 0
  THEN NoBackend(s, Nil)
  ELSE Backend(s, ServerArgs(f_a, s, server), out, Append(s.Servers, server))

\* a faulty EditServer: the port rule is missing
EditServerNoPortRule(s, server, out) ==
  LET i == FindServer(s.Servers, server.Host, server.Port)
  IN IF ServerValidate(server) # Nil THEN NoBackend(s, ServerValidate(server))
     ELSE Backend(s, ServerArgs(f_e, s, server), out,
                  IF i = 0 THEN s.Servers
                  ELSE SubSeq(s.Servers, 1, i - 1) \o <<server>>
                       \o SubSeq(s.Servers, i + 1, Len(s.Servers)))

\* a faulty EditServer: the edited entry is moved to the end of the list
EditServerMoveToEnd(s, server, out) ==
  LET i == FindServer(s.Servers, server.Host, server.Port)
  IN IF ServerValidate(server) # Nil THEN NoBackend(s, ServerValidate(server))
     ELSE IF server.Forwarder # s_m /\ s.Port # server.Port
     THEN NoBackend(s, InvalidServerPort)
     ELSE Backend(s, ServerArgs(f_e, s, server), out,
                  IF i = 0 THEN s.Servers
                  ELSE SubSeq(s.Servers, 1, i - 1)
                       \o SubSeq(s.Servers, i + 1, Len(s.Servers)) \o <<server>>)

\* Service.EditServer
EditServerResult(s, server, out) ==
  LET i == FindServer(s.Servers, server.Host, server.Port)
  IN IF ServerValidate(server) # Nil THEN NoBackend(s, ServerValidate(server))
     ELSE IF server.Forwarder # s_m /\ s.Port # server.Port
     THEN NoBackend(s, InvalidServerPort)
     ELSE Backend(s, ServerArgs(f_e, s, server), out,
                  IF i = 0 THEN s.Servers
                  ELSE SubSeq(s.Servers, 1, i - 1) \o <<server>>
                       \o SubSeq(s.Servers, i + 1, Len(s.Servers)))

\* a faulty RemoveServer: the entry is removed before the backend's error
\* is looked at
RemoveServerIgnoringError(s, host, port, out) ==
  LET i == FindServer(s.Servers, host, port)
  IN [svc |-> [s EXCEPT !.Servers =
                 IF i = 0 THEN s.Servers
                 ELSE SubSeq(s.Servers, 1, i - 1)
                      \o SubSeq(s.Servers, i + 1, Len(s.Servers))],
      invoked |-> TRUE, args |-> RemoveArgs(s, host, port), berr |-> out,
      ret |-> out]

\* a faulty RemoveServer: the entries before the removed one are lost
RemoveServerDropPrefix(s, host, port, out) ==
  LET i == FindServer(s.Servers, host, port)
  IN Backend(s, RemoveArgs(s, host, port), out,
             IF i = 0 THEN s.Servers
             ELSE SubSeq(s.Servers, i + 1, Len(s.Servers)))

\* Service.RemoveServer
RemoveServerResult(s, host, port, out) ==
  LET i == FindServer(s.Servers, host, port)
  IN Backend(s, RemoveArgs(s, host, port), out,
             IF i = 0 THEN s.Servers
             ELSE SubSeq(s.Servers, 1, i - 1)
                  \o SubSeq(s.Servers, i + 1, Len(s.Servers)))

----------------------------------------------------------------------------
(* Inputs and bounds.                                                      *)

MaxServers == 3
MaxListed == 2
MaxTokens == 2

Hosts == {<<"a">>, <<"b">>}
ServicePorts == {0, 80}
ServerPorts == {0, 80}
Forwarders == {s_g, s_m, <<"x">>}
BackendOutcomes == {Nil, "exit status 1", "exit status 2"}

\* forwarding method and weight of the servers offered to the calls
Settings == {<<s_g, 1>>, <<s_m, 2>>, <<<<"x">>, 1>>}

ServerInputs ==
  {[Host |-> h, Port |-> p, Forwarder |-> fw[1], Weight |-> fw[2]] :
     h \in Hosts, p \in ServerPorts, fw \in Settings}

RECURSIVE SeqsUpTo(_, _)
\* the sequences over S of length at most n
SeqsUpTo(S, n) ==
  IF n = 0 THEN {<<>>}
  ELSE LET shorter == SeqsUpTo(S, n - 1)
       IN shorter \cup {Append(q, x) : q \in shorter, x \in S}

NoCall ==
  [op |-> "none", arg |-> <<>>, invoked |-> FALSE, args |-> <<>>,
   berr |-> Nil, ret |-> Nil, before |-> <<>>]

NoParse == [done |-> FALSE, panic |-> FALSE, service |-> DefaultService]

Record(op, arg, s, r) ==
  [op |-> op, arg |-> arg, invoked |-> r.invoked, args |-> r.args,
   berr |-> r.berr, ret |-> r.ret, before |-> s.Servers]

----------------------------------------------------------------------------
(* Spec: a service that starts with no servers and receives AddServer,     *)
(* EditServer and RemoveServer calls, the backend succeeding or failing.   *)

Init ==
  /\ svc \in [Host : {<<"v">>}, Port : ServicePorts, Type : {s_tcp},
              Scheduler : {s_wlc}, Persistence : {0}, Netmask : {E},
              Servers : {<<>>}]
  /\ call = NoCall
  /\ text = E
  /\ parsed = NoParse

AddServer ==
  \E server \in ServerInputs, out \in BackendOutcomes :
    LET r == AddServerResult(svc, server, out)
    IN /\ Len(r.svc.Servers) <= MaxServers
       /\ svc' = r.svc
       /\ call' = Record("AddServer", server, svc, r)
       /\ UNCHANGED <<text, parsed>>

EditServer ==
  \E server \in ServerInputs, out \in BackendOutcomes :
    LET r == EditServerResult(svc, server, out)
    IN /\ svc' = r.svc
       /\ call' = Record("EditServer", server, svc, r)
       /\ UNCHANGED <<text, parsed>>

RemoveServer ==
  \E host \in Hosts, port \in ServerPorts, out \in BackendOutcomes :
    LET r == RemoveServerResult(svc, host, port, out)
    IN /\ svc' = r.svc
       /\ call' = Record("RemoveServer", [Host |-> host, Port |-> port], svc, r)
       /\ UNCHANGED <<text, parsed>>

Next == AddServer \/ EditServer \/ RemoveServer

Spec == Init /\ [][Next]_vars

----------------------------------------------------------------------------
(* SpecValidate: Service.Validate applied to a service whose fields and    *)
(* server list are arbitrary (a struct literal or FromJson).               *)

ListedServers ==
  [Host : {<<"a">>}, Port : ServerPorts, Forwarder : Forwarders, Weight : {1}]

InitValidate ==
  /\ svc \in [Host : {<<"v">>}, Port : ServicePorts,
              Type : {E, s_tcp, s_udp, s_fwmark, <<"x">>},
              Scheduler : {E, s_rr, s_nq, <<"x">>},
              Persistence : {0}, Netmask : {E},
              Servers : SeqsUpTo(ListedServers, MaxListed)]
  /\ call = NoCall
  /\ text = E
  /\ parsed = NoParse

ValidateCall ==
  /\ call.op = "none"
  /\ call' = [NoCall EXCEPT !.op = "Validate", !.ret = Validate(svc),
                            !.before = svc.Servers]
  /\ UNCHANGED <<svc, text, parsed>>

NextValidate == ValidateCall

SpecValidate == InitValidate /\ [][NextValidate]_vars

----------------------------------------------------------------------------
(* SpecString: String() of a service without servers, then parseService of *)
(* the text.  SpecParse: parseService of an arbitrary text.                *)

InitString ==
  /\ svc \in [Host : {<<"h">>, E}, Port : ServicePorts,
              Type : {E, s_tcp, s_udp, s_fwmark, <<"x">>},
              Scheduler : {E, s_rr, s_wlc, <<"x">>},
              Persistence : {0, 60, 300}, Netmask : {E, <<"2", "4">>},
              Servers : {<<>>}]
  /\ call = NoCall
  /\ text = E
  /\ parsed = NoParse

StringCall ==
  /\ call.op = "none"
  /\ text' = String(svc)
  /\ call' = [NoCall EXCEPT !.op = "String"]
  /\ UNCHANGED <<svc, parsed>>

ParseCall ==
  /\ call.op \in {"String", "Input"}
  /\ ~parsed.done
  /\ parsed' = [done |-> TRUE, panic |-> parseService(text).panic,
                service |-> parseService(text).service]
  /\ UNCHANGED <<svc, call, text>>

NextString == StringCall \/ ParseCall

SpecString == InitString /\ [][NextString]_vars

Tokens ==
  {f_t, l_tcp, f_u, f_f, f_s, l_scheduler, f_p, f_M, s_rr, E,
   <<"h", ":", "8", "0">>, <<"6", "0">>, <<"x">>}

InitParse ==
  /\ svc = DefaultService
  /\ call = [NoCall EXCEPT !.op = "Input"]
  /\ text \in {Join(toks, SP) : toks \in SeqsUpTo(Tokens, MaxTokens)}
  /\ parsed = NoParse

NextParse == ParseCall

SpecParse == InitParse /\ [][NextParse]_vars

----------------------------------------------------------------------------
(* Properties.                                                             *)

SameKey(e, host, port) == e.Host = host /\ e.Port = port

HasKey(servers, host, port) ==
  \E i \in 1..Len(servers) : SameKey(servers[i], host, port)

\* the least index holding the key, 0 when none does
FirstIndex(servers, host, port) ==
  IF HasKey(servers, host, port)
  THEN CHOOSE i \in 1..Len(servers) :
         /\ SameKey(servers[i], host, port)
         /\ \A j \in 1..(i - 1) : ~SameKey(servers[j], host, port)
  ELSE 0

\* a server the service must refuse: it fails its own validation, or it is
\* not masqueraded and its port differs from the service's
Illegal(s, server) ==
  \/ ServerValidate(server) # Nil
  \/ server.Forwarder # s_m /\ server.Port # s.Port

IllegalError(server) ==
  IF ServerValidate(server) # Nil THEN ServerValidate(server)
  ELSE InvalidServerPort

Mutating == {"AddServer", "EditServer", "RemoveServer"}

Succeeded == call.invoked /\ call.berr = Nil

\* C1: when the backend returns an error, the call returns that error and
\* Servers is what it was before the call; Servers differs from what it was
\* only after a backend invocation that succeeded.
C1_BackendErrorLeavesServers ==
  call.op \in Mutating =>
    /\ (call.invoked /\ call.berr # Nil) =>
         (call.ret = call.berr /\ svc.Servers = call.before)
    /\ svc.Servers # call.before => Succeeded

C1_Witness ==
  /\ call.op = "RemoveServer"
  /\ call.invoked
  /\ call.berr = "exit status 2"
  /\ HasKey(call.before, call.arg.Host, call.arg.Port)
  /\ Len(call.before) >= 2

\* C2: Validate returns nil exactly when the type is tcp, udp, fwmark or
\* empty, the scheduler is one of the ten schedulers or empty, and every
\* listed server passes its own validation and the port rule; otherwise it
\* returns the error of the first failing check: the type, then the
\* scheduler, then server by server the server's own error before
\* InvalidServerPort.
C2_ValidateDecision ==
  call.op = "Validate" =>
    LET typeOk == svc.Type \in {s_tcp, s_udp, s_fwmark, E}
        schedOk == svc.Scheduler \in {s_rr, s_wrr, s_lc, s_wlc, s_lblc, s_lblcr,
                                      s_dh, s_sh, s_sed, s_nq, E}
        bad == {i \in 1..Len(svc.Servers) : Illegal(svc, svc.Servers[i])}
        first == CHOOSE i \in bad : \A j \in bad : i <= j
    IN /\ call.ret = Nil <=> (typeOk /\ schedOk /\ bad = {})
       /\ ~typeOk => call.ret = InvalidServiceType
       /\ (typeOk /\ ~schedOk) => call.ret = InvalidServiceScheduler
       /\ (typeOk /\ schedOk /\ bad # {}) =>
            call.ret = IllegalError(svc.Servers[first])

C2_Witness ==
  /\ call.op = "Validate"
  /\ svc.Type = s_fwmark
  /\ svc.Scheduler = E
  /\ Len(svc.Servers) = 2
  /\ ServerValidate(svc.Servers[1]) = Nil
  /\ svc.Servers[1].Forwarder = s_g
  /\ svc.Servers[1].Port # svc.Port
  /\ ServerValidate(svc.Servers[2]) # Nil
  /\ call.ret = InvalidServerPort

\* C3: for a service without servers that validates, parseService of the
\* text of String() returns a service with the same Host, Port, Type,
\* Scheduler, Persistence and Netmask.
C3_RoundTrip ==
  (call.op = "String" /\ parsed.done /\ Validate(svc) = Nil) =>
    /\ ~parsed.panic
    /\ parsed.service.Host = svc.Host
    /\ parsed.service.Port = svc.Port
    /\ parsed.service.Type = svc.Type
    /\ parsed.service.Scheduler = svc.Scheduler
    /\ parsed.service.Persistence = svc.Persistence
    /\ parsed.service.Netmask = svc.Netmask

\* C4: AddServer and EditServer given an illegal server return the
\* validation error (InvalidServerPort for the port rule), do not invoke
\* the backend and leave Servers unchanged.
C4_IllegalServerNeverReachesBackend ==
  (call.op \in {"AddServer", "EditServer"} /\ Illegal(svc, call.arg)) =>
    /\ ~call.invoked
    /\ call.args = <<>>
    /\ call.ret = IllegalError(call.arg)
    /\ svc.Servers = call.before

C4_Witness ==
  /\ call.op = "EditServer"
  /\ ServerValidate(call.arg) = Nil
  /\ call.arg.Forwarder # s_m
  /\ call.arg.Port # svc.Port
  /\ HasKey(call.before, call.arg.Host, call.arg.Port)
  /\ call.ret = InvalidServerPort

\* C5: AddServer of a legal server whose Host and Port are already listed
\* returns nil, does not invoke the backend and leaves Servers unchanged;
\* when they are not listed the backend is invoked and, if it succeeds,
\* Servers is the old list with the server appended.
C5_AddServerIdempotent ==
  (call.op = "AddServer" /\ ~Illegal(svc, call.arg)) =>
    IF HasKey(call.before, call.arg.Host, call.arg.Port)
    THEN call.ret = Nil /\ ~call.invoked /\ svc.Servers = call.before
    ELSE /\ call.invoked
         /\ call.berr = Nil =>
              (call.ret = Nil /\ svc.Servers = Append(call.before, call.arg))

C5_Witness ==
  /\ call.op = "AddServer"
  /\ ~Illegal(svc, call.arg)
  /\ FirstIndex(call.before, call.arg.Host, call.arg.Port) = 2
  /\ call.before[2].Weight # call.arg.Weight
  /\ call.before[2].Forwarder # call.arg.Forwarder
  /\ svc.Servers = call.before

\* C6: EditServer of a legal server always invokes the backend; when the
\* backend succeeds it returns nil, Servers keeps its length, the first
\* entry with the server's Host and Port is replaced by the server and
\* every other entry stays at its index; with no such entry Servers is
\* unchanged.
C6_EditServerFrame ==
  (call.op = "EditServer" /\ ~Illegal(svc, call.arg)) =>
    /\ call.invoked
    /\ call.berr = Nil =>
         LET i == FirstIndex(call.before, call.arg.Host, call.arg.Port)
         IN /\ call.ret = Nil
            /\ Len(svc.Servers) = Len(call.before)
            /\ \A j \in 1..Len(call.before) :
                 svc.Servers[j] = IF j = i THEN call.arg ELSE call.before[j]

C6_Witness ==
  /\ call.op = "EditServer"
  /\ Succeeded
  /\ Len(call.before) = 3
  /\ FirstIndex(call.before, call.arg.Host, call.arg.Port) = 2
  /\ call.before[2] # call.arg
  /\ svc.Servers[2] = call.arg

\* C7: after a RemoveServer(host, port) that the backend accepts,
\* FindServer(host, port) is nil, Servers is shorter by one if the key was
\* listed and by zero otherwise, and the other entries are unchanged and in
\* their original order.
C7_RemoveServerEffect ==
  (call.op = "RemoveServer" /\ Succeeded) =>
    LET Other(e) == ~SameKey(e, call.arg.Host, call.arg.Port)
        present == HasKey(call.before, call.arg.Host, call.arg.Port)
    IN /\ FindServer(svc.Servers, call.arg.Host, call.arg.Port) = 0
       /\ Len(svc.Servers) = Len(call.before) - (IF present THEN 1 ELSE 0)
       /\ svc.Servers = SelectSeq(call.before, Other)

C7_Witness ==
  /\ call.op = "RemoveServer"
  /\ Succeeded
  /\ Len(call.before) = 3
  /\ FirstIndex(call.before, call.arg.Host, call.arg.Port) = 2
  /\ Len(svc.Servers) = 2

\* C8: no two entries of Servers have the same Host and Port.
C8_UniqueKeys ==
  \A i, j \in 1..Len(svc.Servers) :
    SameKey(svc.Servers[i], svc.Servers[j].Host, svc.Servers[j].Port) => i = j

C8_Witness ==
  /\ Len(svc.Servers) = 3
  /\ svc.Servers[1].Host = svc.Servers[2].Host
  /\ svc.Servers[1].Port # svc.Servers[2].Port
  /\ call.op = "EditServer"
  /\ Succeeded
  /\ svc.Servers # call.before

IsTypeFlag(tok) == tok \in {f_t, l_tcp, f_u, l_udp, f_f, l_fwmark}
IsSchedulerFlag(tok) == tok \in {f_s, l_scheduler}
IsPersistentFlag(tok) == tok \in {f_p, l_persistent}

\* C9: parseService returns a service for every text, also when a
\* recognised flag is the last token; without its flag a field keeps the
\* default (Type tcp, Scheduler wlc, Persistence 300), and a -p value that
\* is not an integer gives Persistence 300.
C9_ParseServiceTotal ==
  (call.op = "Input" /\ parsed.done) =>
    LET toks == Split(text, " ")
        n == Len(toks)
        lastP == CHOOSE i \in 1..n :
                   /\ IsPersistentFlag(toks[i])
                   /\ \A j \in (i + 1)..n : ~IsPersistentFlag(toks[j])
    IN /\ ~parsed.panic
       /\ (\A i \in 1..n : ~IsTypeFlag(toks[i])) => parsed.service.Type = s_tcp
       /\ (\A i \in 1..n : ~IsSchedulerFlag(toks[i])) =>
            parsed.service.Scheduler = s_wlc
       /\ (\A i \in 1..n : ~IsPersistentFlag(toks[i])) =>
            parsed.service.Persistence = 300
       /\ ((\E i \in 1..n : IsPersistentFlag(toks[i]))
           /\ lastP < n /\ ~Atoi(toks[lastP + 1]).ok) =>
            parsed.service.Persistence = 300

\* C10: the service address on every "-a" line of String() is the address
\* AddServer hands to the backend, which is also the address Add hands to
\* it and the address on the "-A" line, whatever the service's Port.
C10_SameServiceAddress ==
  (call.op = "AddServer" /\ Succeeded) =>
    LET lines == Split(String(svc), "\n")
    IN /\ AddArgs(svc)[3] = call.args[3]
       /\ Split(lines[1], " ")[3] = call.args[3]
       /\ \A i \in 1..Len(svc.Servers) :
            Split(lines[i + 1], " ")[3] = call.args[3]

====
